---- MODULE Spec2Model ----
(***************************************************************************)
(* A model of the poll-based task core of kraytos17/futures:               *)
(*   - the task contract, the Done primitive and the Chain combinator      *)
(*     (src/src/futures/mod.rs);                                           *)
(*   - the two schedulers SimpleRunner and PollRunner                      *)
(*     (src/src/futures/fut_test.rs).                                      *)
(* A task is a value; poll and cleanup are operators that return the task  *)
(* after the call, the result of the call and the calls made on the way.   *)
(* Option<T> is a sequence of length 0 (None) or 1 (Some).                 *)
(* src/src/futures/futures.rs is an older copy of mod.rs (Then for Chain,  *)
(* destroy for cleanup) that panics where mod.rs returns an error; the     *)
(* runners never poll a task again after Done, so both copies behave alike *)
(* under them, and the tasks are modelled from mod.rs.                     *)
(***************************************************************************)
EXTENDS Integers, Sequences, FiniteSets, TLC

\* ---------------------------------------------------------------- bounds
MaxPolls == 6      \* polls the direct driver makes on one task
MaxTasks == 3      \* tasks scheduled on a runner over its life
MaxRuns  == 2      \* calls of run() on one runner
MaxSweeps == 5     \* sweeps of the queues one run() is followed for
Values   == {5, 10}

\* ------------------------------------------------------- results (mod.rs)
NoErr == "Ok"
\* enum FutError, plus one error of a user's own task
FutError == {"SleepingUnsupported", "PolledAfterCompletion",
             "CompletedWithoutValue", "UserError"}
\* enum FutState
FutState == {"Pending", "Done", "Waiting"}

None == << >>
Some(v) == << v >>

\* Result<FutResult<T>, E>: err = NoErr is Ok(FutResult {state, value})
FutResult(s, val) == [err |-> NoErr, state |-> s, value |-> val]
Err(e) == [err |-> e, state |-> "-", value |-> None]
IsOk(r) == r.err = NoErr

\* FutResult::pending()
FutResultPending == FutResult("Pending", None)
\* FutResult::finished(val)
FutResultFinished(val) == FutResult("Done", Some(val))

\* ------------------------------------------------------------------ tasks
NoFuture == [kind |-> "None"]
NoTransform == [op |-> "none", k |-> 0, mk |-> "none", next |-> << >>]

\* Done::new(val)
DoneNew(val) == [kind |-> "Done", res |-> Some(val)]

\* An externally supplied implementation of the Future trait: it answers
\* its polls from a script, the last entry of which repeats.
ExtNew(steps) == [kind |-> "Ext", steps |-> steps]

\* Chain::new(future, transform): ChainState::First { future, transform }
ChainNew(future, transform) ==
    [kind |-> "Chain", state |-> "First", future |-> future,
     transform |-> transform]
\* ChainState::Second(F2)
ChainSecond(future) ==
    [kind |-> "Chain", state |-> "Second", future |-> future,
     transform |-> NoTransform]
\* ChainState::Done
ChainDone ==
    [kind |-> "Chain", state |-> "Done", future |-> NoFuture,
     transform |-> NoTransform]

\* The closures handed to Chain::new: |x| Done::new(x + k),
\* |x| Done::new(x * k), |x| Chain::new(Done::new(x + k), next), and closures
\* that build a user's own task from the computed value.
Arith(tr, x) == IF tr.op = "add" THEN x + tr.k ELSE x * tr.k

Leaf(mk, y) ==
    CASE mk = "Done"     -> DoneNew(y)
      [] mk = "PendDone" -> ExtNew(<< FutResultPending, FutResultFinished(y),
                                      Err("PolledAfterCompletion") >>)
      [] mk = "WaitDone" -> ExtNew(<< FutResult("Waiting", Some(y)), FutResultFinished(y),
                                      Err("PolledAfterCompletion") >>)
      [] mk = "Fail"     -> ExtNew(<< Err("UserError") >>)

RECURSIVE Apply(_, _)
Apply(tr, x) ==
    IF tr.next = << >>
    THEN Leaf(tr.mk, Arith(tr, x))
    ELSE ChainNew(Leaf(tr.mk, Arith(tr, x)), tr.next[1])

\* ----------------------------------------------------- calls on the tasks
\* One call made on a task: op is "poll", "cleanup", or "create" (the
\* transform built the task); id is the path of the task: a top-level task
\* is <<n>>, the first task of chain p is p \o <<1>>, its second p \o <<2>>.
NoRes == Err("-")
Event(op, id, out) == [op |-> op, id |-> id, out |-> out]

Ret(fut, res, ev) == [fut |-> fut, res |-> res, ev |-> ev]

\* Done::poll reading the value without taking it
DonePollKeeps(d, id) ==
    Ret(d, FutResultFinished(d.res[1]),
        << Event("poll", id, FutResultFinished(d.res[1])) >>)

\* Done::poll
DonePoll(d, id) ==
    IF d.res = None
    THEN Ret(d, Err("PolledAfterCompletion"),
             << Event("poll", id, Err("PolledAfterCompletion")) >>)
    ELSE Ret([d EXCEPT !.res = None], FutResultFinished(d.res[1]),
             << Event("poll", id, FutResultFinished(d.res[1])) >>)

\* poll of a user's own task
ExtPoll(e, id) ==
    Ret(IF Len(e.steps) > 1 THEN [e EXCEPT !.steps = Tail(e.steps)] ELSE e,
        Head(e.steps),
        << Event("poll", id, Head(e.steps)) >>)

RECURSIVE Poll(_, _)

\* the First arm polling the second task in the poll that created it
ChainPollFirstEager(c, id) ==
    LET r == Poll(c.future, id \o <<1>>)
    IN  IF ~IsOk(r.res)
        THEN Ret(ChainDone, r.res, << Event("poll", id, r.res) >> \o r.ev)
        ELSE IF r.res.state = "Done" /\ r.res.value # None
        THEN LET r2 == Poll(Apply(c.transform, r.res.value[1]), id \o <<2>>)
             IN  Ret(IF IsOk(r2.res) /\ r2.res.state = "Done"
                     THEN ChainDone ELSE ChainSecond(r2.fut),
                     r2.res,
                     << Event("poll", id, r2.res) >> \o r.ev
                        \o << Event("create", id \o <<2>>, NoRes) >> \o r2.ev)
        ELSE IF r.res.state = "Pending"
        THEN Ret([c EXCEPT !.future = r.fut], FutResultPending,
                 << Event("poll", id, FutResultPending) >> \o r.ev)
        ELSE IF r.res.state = "Waiting"
        THEN Ret([c EXCEPT !.future = r.fut], FutResult("Waiting", None),
                 << Event("poll", id, FutResult("Waiting", None)) >> \o r.ev)
        ELSE Ret(ChainDone, Err("CompletedWithoutValue"),
                 << Event("poll", id, Err("CompletedWithoutValue")) >>
                    \o r.ev)

\* the First arm handing on what the first task returned while not Done
ChainPollFirstPropagates(c, id) ==
    LET r == Poll(c.future, id \o <<1>>)
    IN  IF ~IsOk(r.res)
        THEN Ret(ChainDone, r.res, << Event("poll", id, r.res) >> \o r.ev)
        ELSE IF r.res.state = "Done" /\ r.res.value # None
        THEN Ret(ChainSecond(Apply(c.transform, r.res.value[1])),
                 FutResultPending,
                 << Event("poll", id, FutResultPending) >> \o r.ev
                    \o << Event("create", id \o <<2>>, NoRes) >>)
        ELSE IF r.res.state \in {"Pending", "Waiting"}
        THEN Ret([c EXCEPT !.future = r.fut], r.res,
                 << Event("poll", id, r.res) >> \o r.ev)
        ELSE Ret(ChainDone, Err("CompletedWithoutValue"),
                 << Event("poll", id, Err("CompletedWithoutValue")) >>
                    \o r.ev)

\* the First arm making up a value for a Done that carries none
ChainPollFirstDefaultsValue(c, id) ==
    LET r == Poll(c.future, id \o <<1>>)
    IN  IF ~IsOk(r.res)
        THEN Ret(ChainDone, r.res, << Event("poll", id, r.res) >> \o r.ev)
        ELSE IF r.res.state = "Done"
        THEN Ret(ChainSecond(Apply(c.transform,
                                   IF r.res.value # None THEN r.res.value[1]
                                                         ELSE 0)),
                 FutResultPending,
                 << Event("poll", id, FutResultPending) >> \o r.ev
                    \o << Event("create", id \o <<2>>, NoRes) >>)
        ELSE IF r.res.state = "Pending"
        THEN Ret([c EXCEPT !.future = r.fut], FutResultPending,
                 << Event("poll", id, FutResultPending) >> \o r.ev)
        ELSE Ret([c EXCEPT !.future = r.fut], FutResult("Waiting", None),
                 << Event("poll", id, FutResult("Waiting", None)) >> \o r.ev)

\* the First arm taking any outcome that carries a value as the completion
ChainPollFirstTakesAnyValue(c, id) ==
    LET r == Poll(c.future, id \o <<1>>)
    IN  IF ~IsOk(r.res)
        THEN Ret(ChainDone, r.res, << Event("poll", id, r.res) >> \o r.ev)
        ELSE IF r.res.value # None
        THEN Ret(ChainSecond(Apply(c.transform, r.res.value[1])),
                 FutResultPending,
                 << Event("poll", id, FutResultPending) >> \o r.ev
                    \o << Event("create", id \o <<2>>, NoRes) >>)
        ELSE IF r.res.state = "Pending"
        THEN Ret([c EXCEPT !.future = r.fut], FutResultPending,
                 << Event("poll", id, FutResultPending) >> \o r.ev)
        ELSE IF r.res.state = "Waiting"
        THEN Ret([c EXCEPT !.future = r.fut], FutResult("Waiting", None),
                 << Event("poll", id, FutResult("Waiting", None)) >> \o r.ev)
        ELSE Ret(ChainDone, Err("CompletedWithoutValue"),
                 << Event("poll", id, Err("CompletedWithoutValue")) >>
                    \o r.ev)

\* the First arm handing on the value of a Waiting first task
ChainPollFirstKeepsWaitValue(c, id) ==
    LET r == Poll(c.future, id \o <<1>>)
    IN  IF ~IsOk(r.res)
        THEN Ret(ChainDone, r.res, << Event("poll", id, r.res) >> \o r.ev)
        ELSE IF r.res.state = "Done" /\ r.res.value # None
        THEN Ret(ChainSecond(Apply(c.transform, r.res.value[1])),
                 FutResultPending,
                 << Event("poll", id, FutResultPending) >> \o r.ev
                    \o << Event("create", id \o <<2>>, NoRes) >>)
        ELSE IF r.res.state = "Pending"
        THEN Ret([c EXCEPT !.future = r.fut], FutResultPending,
                 << Event("poll", id, FutResultPending) >> \o r.ev)
        ELSE IF r.res.state = "Waiting"
        THEN Ret([c EXCEPT !.future = r.fut], r.res,
                 << Event("poll", id, r.res) >> \o r.ev)
        ELSE Ret(ChainDone, Err("CompletedWithoutValue"),
                 << Event("poll", id, Err("CompletedWithoutValue")) >>
                    \o r.ev)

\* the First arm writing the state back before it returns the error
ChainPollFirstRestoresOnError(c, id) ==
    LET r == Poll(c.future, id \o <<1>>)
    IN  IF ~IsOk(r.res)
        THEN Ret([c EXCEPT !.future = r.fut], r.res,
                 << Event("poll", id, r.res) >> \o r.ev)
        ELSE IF r.res.state = "Done" /\ r.res.value # None
        THEN Ret(ChainSecond(Apply(c.transform, r.res.value[1])),
                 FutResultPending,
                 << Event("poll", id, FutResultPending) >> \o r.ev
                    \o << Event("create", id \o <<2>>, NoRes) >>)
        ELSE IF r.res.state = "Pending"
        THEN Ret([c EXCEPT !.future = r.fut], FutResultPending,
                 << Event("poll", id, FutResultPending) >> \o r.ev)
        ELSE IF r.res.state = "Waiting"
        THEN Ret([c EXCEPT !.future = r.fut], FutResult("Waiting", None),
                 << Event("poll", id, FutResult("Waiting", None)) >> \o r.ev)
        ELSE Ret(ChainDone, Err("CompletedWithoutValue"),
                 << Event("poll", id, Err("CompletedWithoutValue")) >>
                    \o r.ev)

\* Chain::poll, ChainState::First { future, transform }: self.state was
\* replaced by ChainState::Done and is written back in the arms that keep it
ChainPollFirst(c, id) ==
    LET r == Poll(c.future, id \o <<1>>)
    IN  IF ~IsOk(r.res)
        THEN Ret(ChainDone, r.res, << Event("poll", id, r.res) >> \o r.ev)
        ELSE IF r.res.state = "Done" /\ r.res.value # None
        THEN Ret(ChainSecond(Apply(c.transform, r.res.value[1])),
                 FutResultPending,
                 << Event("poll", id, FutResultPending) >> \o r.ev
                    \o << Event("create", id \o <<2>>, NoRes) >>)
        ELSE IF r.res.state = "Pending"
        THEN Ret([c EXCEPT !.future = r.fut], FutResultPending,
                 << Event("poll", id, FutResultPending) >> \o r.ev)
        ELSE IF r.res.state = "Waiting"
        THEN Ret([c EXCEPT !.future = r.fut], FutResult("Waiting", None),
                 << Event("poll", id, FutResult("Waiting", None)) >> \o r.ev)
        ELSE Ret(ChainDone, Err("CompletedWithoutValue"),
                 << Event("poll", id, Err("CompletedWithoutValue")) >>
                    \o r.ev)

\* the Second arm answering Pending whatever the second task returned
ChainPollSecondMasks(c, id) ==
    LET r == Poll(c.future, id \o <<2>>)
    IN  IF IsOk(r.res)
        THEN Ret(IF r.res.state # "Done" THEN ChainSecond(r.fut)
                                         ELSE ChainDone,
                 FutResultPending,
                 << Event("poll", id, FutResultPending) >> \o r.ev)
        ELSE Ret(ChainSecond(r.fut), r.res,
                 << Event("poll", id, r.res) >> \o r.ev)

\* the Second arm writing the second task back whatever it returned
ChainPollSecondKeeps(c, id) ==
    LET r == Poll(c.future, id \o <<2>>)
    IN  Ret(ChainSecond(r.fut), r.res, << Event("poll", id, r.res) >> \o r.ev)

\* Chain::poll, ChainState::Second(future)
ChainPollSecond(c, id) ==
    LET r == Poll(c.future, id \o <<2>>)
    IN  IF IsOk(r.res)
        THEN Ret(IF r.res.state # "Done" THEN ChainSecond(r.fut)
                                         ELSE ChainDone,
                 r.res, << Event("poll", id, r.res) >> \o r.ev)
        ELSE Ret(ChainSecond(r.fut), r.res,
                 << Event("poll", id, r.res) >> \o r.ev)

\* Chain::poll
ChainPoll(c, id) ==
    CASE c.state = "First"  -> ChainPollFirst(c, id)
      [] c.state = "Second" -> ChainPollSecond(c, id)
      [] c.state = "Done"   ->
           Ret(ChainDone, Err("PolledAfterCompletion"),
               << Event("poll", id, Err("PolledAfterCompletion")) >>)

\* Future::poll, dispatched on the implementation
Poll(f, id) ==
    CASE f.kind = "Done"  -> DonePoll(f, id)
      [] f.kind = "Ext"   -> ExtPoll(f, id)
      [] f.kind = "Chain" -> ChainPoll(f, id)

RECURSIVE Cleanup(_, _)

\* Chain::cleanup forgetting the second task
ChainCleanupFirstOnly(c, id) ==
    CASE c.state = "First"  -> << Event("cleanup", id, NoRes) >>
                                  \o Cleanup(c.future, id \o <<1>>)
      [] OTHER              -> << Event("cleanup", id, NoRes) >>

\* Chain::cleanup
ChainCleanup(c, id) ==
    CASE c.state = "First"  -> << Event("cleanup", id, NoRes) >>
                                  \o Cleanup(c.future, id \o <<1>>)
      [] c.state = "Second" -> << Event("cleanup", id, NoRes) >>
                                  \o Cleanup(c.future, id \o <<2>>)
      [] c.state = "Done"   -> << Event("cleanup", id, NoRes) >>

\* Future::cleanup (destroy in the runners' copy of the trait)
Cleanup(f, id) ==
    CASE f.kind = "Chain" -> ChainCleanup(f, id)
      [] OTHER            -> << Event("cleanup", id, NoRes) >>

\* ------------------------------------------------------------------ state
VARIABLES
    runner,     \* "simple", "poll": the runner built; "direct": no runner
    futs,       \* SimpleRunner.futs
    active,     \* PollRunner.active
    pending,    \* PollRunner.pending
    sleeping,   \* PollRunner.sleeping
    pc,         \* position of the caller and of run()
    i,          \* the index i of SimpleRunner::run
    result,     \* what the last run() returned ("none" before)
    runs,       \* calls of run() so far
    sweep,      \* sweeps started by the current run()
    sched,      \* the tasks handed to schedule, as constructed, in order
    log,        \* every call made on a task, in order
    tfut,       \* the task a direct caller holds
    tinit,      \* that task as constructed
    touts       \* the results of the direct caller's polls, in order

vars == << runner, futs, active, pending, sleeping, pc, i, result, runs,
           sweep, sched, log, tfut, tinit, touts >>

queues == << futs, active, pending, sleeping >>
direct == << tfut, tinit, touts >>

\* the calls of one step, stamped with the run and the sweep they belong to
Stamp(ev, r, s) ==
    [k \in 1..Len(ev) |->
        [op |-> ev[k].op, id |-> ev[k].id, out |-> ev[k].out,
         run |-> r, sweep |-> s]]

\* the caller is between calls on the runner ("returned": run() has just
\* returned)
Idle == pc \in {"idle", "returned"}

Boxed(n, f) == [id |-> << n >>, fut |-> f]

\* VecDeque::remove(i), i counted from 0
Remove(q, n) == SubSeq(q, 1, n) \o SubSeq(q, n + 2, Len(q))

\* ----------------------------------------------------------------- inputs
Tr(op, k, mk, next) == [op |-> op, k |-> k, mk |-> mk, next |-> next]

\* |x| Done::new(x + 5), |x| Done::new(x * 2) and
\* |x| Chain::new(Done::new(x + 1), |y| Done::new(y * 2)) of the callers,
\* and closures building a user's own task
Transforms ==
    { Tr("add", 5, "Done", << >>),
      Tr("mul", 2, "Done", << >>),
      Tr("add", 1, "Done", << Tr("mul", 2, "Done", << >>) >>),
      Tr("add", 5, "PendDone", << >>),
      Tr("mul", 2, "WaitDone", << >>),
      Tr("add", 5, "Fail", << >>) }

\* the scripts of the user's own tasks
PendDone(v) == ExtNew(<< FutResultPending, FutResultFinished(v),
                         Err("PolledAfterCompletion") >>)
PendSomeDone(v) == ExtNew(<< FutResult("Pending", Some(v)),
                             FutResultFinished(v),
                             Err("PolledAfterCompletion") >>)
WaitDone(v) == ExtNew(<< FutResult("Waiting", Some(v)), FutResultFinished(v),
                         Err("PolledAfterCompletion") >>)
WaitNoneDone(v) == ExtNew(<< FutResult("Waiting", None), FutResultFinished(v),
                             Err("PolledAfterCompletion") >>)
Fails == ExtNew(<< Err("UserError") >>)
DoneNoValue == ExtNew(<< FutResult("Done", None),
                         Err("PolledAfterCompletion") >>)
PendForever == ExtNew(<< FutResultPending >>)
WaitForever == ExtNew(<< FutResult("Waiting", Some(5)) >>)

Leaves ==
    { DoneNew(v) : v \in Values }
      \cup { PendDone(v) : v \in Values }
      \cup { PendSomeDone(5), WaitDone(5), WaitNoneDone(5), Fails,
              DoneNoValue }

\* the tasks a direct caller polls
DirectTasks ==
    Leaves \cup { ChainNew(f, t) : f \in Leaves, t \in Transforms }

\* the tasks handed to a runner
RunnerTasks ==
    { DoneNew(5), DoneNew(10),
      ChainNew(DoneNew(10), Tr("add", 5, "Done", << >>)),
      ChainNew(DoneNew(5), Tr("mul", 2, "Done", << >>)),
      ChainNew(DoneNew(5), Tr("add", 1, "Done",
                              << Tr("mul", 2, "Done", << >>) >>)),
      PendDone(5), WaitDone(5), WaitNoneDone(5), Fails, PendForever,
      WaitForever,
      ChainNew(WaitDone(5), Tr("add", 5, "Done", << >>)) }

\* ------------------------------------------------------------------- Init
NoRunner ==
    /\ futs = << >> /\ active = << >> /\ pending = << >> /\ sleeping = << >>
    /\ i = 0 /\ result = "none" /\ runs = 0 /\ sweep = 0 /\ sched = << >>
    /\ log = << >>

\* SimpleRunner::new() or PollRunner::new()
Init ==
    /\ runner \in {"simple", "poll"}
    /\ NoRunner
    /\ pc = "idle"
    /\ tfut = NoFuture /\ tinit = NoFuture /\ touts = << >>

\* a caller that constructs one task and polls it itself
InitDirect ==
    /\ runner = "direct"
    /\ NoRunner
    /\ pc = "direct"
    /\ tfut \in DirectTasks /\ tinit = tfut /\ touts = << >>

\* ---------------------------------------------------------- direct caller
DirectPoll ==
    /\ pc = "direct"
    /\ Len(touts) < MaxPolls
    /\ LET r == Poll(tfut, << 0 >>)
       IN  /\ tfut' = r.fut
           /\ touts' = Append(touts, r.res)
           /\ log' = log \o Stamp(r.ev, 0, Len(touts) + 1)
    /\ UNCHANGED << runner, queues, pc, i, result, runs, sweep, sched, tinit >>

DirectCleanup ==
    /\ pc = "direct"
    /\ pc' = "cleaned"
    /\ log' = log \o Stamp(Cleanup(tfut, << 0 >>), 0, Len(touts))
    /\ UNCHANGED << runner, queues, i, result, runs, sweep, sched, direct >>

NextDirect == DirectPoll \/ DirectCleanup
SpecDirect == InitDirect /\ [][NextDirect]_vars

\* ----------------------------------------------------------- SimpleRunner
\* SimpleRunner::schedule
SimpleSchedule(f) ==
    /\ runner = "simple" /\ Idle
    /\ Len(sched) < MaxTasks
    /\ futs' = Append(futs, Boxed(Len(sched), f))
    /\ sched' = Append(sched, f)
    /\ pc' = "idle"
    /\ UNCHANGED << runner, active, pending, sleeping, i, result, runs,
                    sweep, log, direct >>

\* the caller calls run()
RunCall ==
    /\ Idle
    /\ runs < MaxRuns
    /\ pc' = "outer"
    /\ runs' = runs + 1
    /\ sweep' = 0
    /\ result' = "running"
    /\ UNCHANGED << runner, queues, i, sched, log, direct >>

\* SimpleRunner::run: while !self.is_empty() fails, Ok(())
SimpleReturn ==
    /\ runner = "simple" /\ pc = "outer"
    /\ futs = << >>
    /\ pc' = "returned"
    /\ result' = "Ok"
    /\ UNCHANGED << runner, queues, i, runs, sweep, sched, log, direct >>

\* SimpleRunner::run: let mut i = 0
SimplePassStart ==
    /\ runner = "simple" /\ pc = "outer"
    /\ futs # << >>
    /\ sweep < MaxSweeps
    /\ i' = 0
    /\ sweep' = sweep + 1
    /\ pc' = "inner"
    /\ UNCHANGED << runner, queues, result, runs, sched, log, direct >>

\* SimpleRunner::run: while i < self.futs.len() fails
SimplePassEnd ==
    /\ runner = "simple" /\ pc = "inner"
    /\ i >= Len(futs)
    /\ pc' = "outer"
    /\ UNCHANGED << runner, queues, i, result, runs, sweep, sched, log,
                    direct >>

\* SimpleRunner::run: the arms of match self.futs[i].poll()? { ... }.
\* ret: the error run() returns with ("" when it goes on); advance: i += 1;
\* remove: self.futs.remove(i); destroy: destroy() is called on that task
Arm(ret, advance, remove, destroy) ==
    [ret |-> ret, advance |-> advance, remove |-> remove,
     destroy |-> destroy]

\* the Done arm moving on and leaving the task in the sequence
SimpleMatchKeepsDone(res) ==
    IF ~IsOk(res) THEN Arm(res.err, FALSE, FALSE, FALSE)
    ELSE IF res.state = "Pending" THEN Arm("", TRUE, FALSE, FALSE)
    ELSE IF res.state = "Waiting"
    THEN Arm("SleepingUnsupported", FALSE, FALSE, FALSE)
    ELSE Arm("", TRUE, FALSE, FALSE)

\* the Done arm advancing i after the removal, which skips the next task
SimpleMatchSkipsAfterRemove(res) ==
    IF ~IsOk(res) THEN Arm(res.err, FALSE, FALSE, FALSE)
    ELSE IF res.state = "Pending" THEN Arm("", TRUE, FALSE, FALSE)
    ELSE IF res.state = "Waiting"
    THEN Arm("SleepingUnsupported", FALSE, FALSE, FALSE)
    ELSE Arm("", TRUE, TRUE, TRUE)

\* the Done arm destroying the task where it is and moving on
SimpleMatchDestroysInPlace(res) ==
    IF ~IsOk(res) THEN Arm(res.err, FALSE, FALSE, FALSE)
    ELSE IF res.state = "Pending" THEN Arm("", TRUE, FALSE, FALSE)
    ELSE IF res.state = "Waiting"
    THEN Arm("SleepingUnsupported", FALSE, FALSE, FALSE)
    ELSE Arm("", TRUE, FALSE, TRUE)

\* the Waiting arm treated like the Pending arm
SimpleMatchSkipsWaiting(res) ==
    IF ~IsOk(res) THEN Arm(res.err, FALSE, FALSE, FALSE)
    ELSE IF res.state = "Pending" THEN Arm("", TRUE, FALSE, FALSE)
    ELSE IF res.state = "Waiting" THEN Arm("", TRUE, FALSE, FALSE)
    ELSE Arm("", FALSE, TRUE, TRUE)

SimpleMatch(res) ==
    IF ~IsOk(res) THEN Arm(res.err, FALSE, FALSE, FALSE)
    ELSE IF res.state = "Pending" THEN Arm("", TRUE, FALSE, FALSE)
    ELSE IF res.state = "Waiting"
    THEN Arm("SleepingUnsupported", FALSE, FALSE, FALSE)
    ELSE Arm("", FALSE, TRUE, TRUE)

\* SimpleRunner::run: one turn of while i < self.futs.len() { ... }
SimplePoll ==
    /\ runner = "simple" /\ pc = "inner"
    /\ i < Len(futs)
    /\ LET b == futs[i + 1]
           r == Poll(b.fut, b.id)
           polled == [futs EXCEPT ![i + 1].fut = r.fut]
           arm == SimpleMatch(r.res)
           gone == IF arm.destroy THEN Cleanup(r.fut, b.id) ELSE << >>
       IN  /\ futs' = IF arm.remove THEN Remove(polled, i) ELSE polled
           /\ i' = IF arm.advance THEN i + 1 ELSE i
           /\ log' = log \o Stamp(r.ev \o gone, runs, sweep)
           /\ result' = IF arm.ret # "" THEN arm.ret ELSE result
           /\ pc' = IF arm.ret # "" THEN "returned" ELSE pc
    /\ UNCHANGED << runner, active, pending, sleeping, runs, sweep, sched,
                    direct >>

\* ------------------------------------------------------------- PollRunner
\* PollRunner::schedule
PollSchedule(f) ==
    /\ runner = "poll" /\ Idle
    /\ Len(sched) < MaxTasks
    /\ pending' = Append(pending, Boxed(Len(sched), f))
    /\ sched' = Append(sched, f)
    /\ pc' = "idle"
    /\ UNCHANGED << runner, futs, active, sleeping, i, result, runs,
                    sweep, log, direct >>

\* PollRunner::is_empty
PollIsEmpty == active = << >> /\ sleeping = << >> /\ pending = << >>

\* PollRunner::run: while !self.is_empty() fails, Ok(())
PollReturn ==
    /\ runner = "poll" /\ pc = "outer"
    /\ PollIsEmpty
    /\ pc' = "returned"
    /\ result' = "Ok"
    /\ UNCHANGED << runner, queues, i, runs, sweep, sched, log, direct >>

Reverse(q) == [k \in 1..Len(q) |-> q[Len(q) + 1 - k]]

\* the sweep starting by moving pending to the front of active task by task,
\* which turns their order around
PollSweepStartReverses ==
    /\ runner = "poll" /\ pc = "outer"
    /\ ~PollIsEmpty
    /\ sweep < MaxSweeps
    /\ active' = Reverse(pending) \o active
    /\ pending' = << >>
    /\ sweep' = sweep + 1
    /\ pc' = "inner"
    /\ UNCHANGED << runner, futs, sleeping, i, result, runs, sched, log,
                    direct >>

\* the sweep starting with a copy of pending, which is left as it is
PollSweepStartCopies ==
    /\ runner = "poll" /\ pc = "outer"
    /\ ~PollIsEmpty
    /\ sweep < MaxSweeps
    /\ active' = active \o pending
    /\ sweep' = sweep + 1
    /\ pc' = "inner"
    /\ UNCHANGED << runner, futs, pending, sleeping, i, result, runs, sched,
                    log, direct >>

\* PollRunner::run: self.active.append(&mut self.pending)
PollSweepStart ==
    /\ runner = "poll" /\ pc = "outer"
    /\ ~PollIsEmpty
    /\ sweep < MaxSweeps
    /\ active' = active \o pending
    /\ pending' = << >>
    /\ sweep' = sweep + 1
    /\ pc' = "inner"
    /\ UNCHANGED << runner, futs, sleeping, i, result, runs, sched, log,
                    direct >>

\* PollRunner::run: the arms of match future.poll()? { ... }.
\* ret: the error run() returns with ("" when it goes on); to: the queue
\* the task is pushed to ("none": it is dropped); destroy: destroy() is called
PArm(ret, to, destroy) == [ret |-> ret, to |-> to, destroy |-> destroy]

\* the error path pushing the failed task back before returning
PollMatchRequeuesFailed(res) ==
    IF ~IsOk(res) THEN PArm(res.err, "pending", FALSE)
    ELSE IF res.state = "Pending" THEN PArm("", "pending", FALSE)
    ELSE IF res.state = "Waiting"
    THEN PArm("", IF res.value # None THEN "sleeping" ELSE "none", FALSE)
    ELSE PArm("", "none", TRUE)

\* the Waiting arm parking the task whether or not a value came with it
PollMatchParksAllWaiting(res) ==
    IF ~IsOk(res) THEN PArm(res.err, "none", FALSE)
    ELSE IF res.state = "Pending" THEN PArm("", "pending", FALSE)
    ELSE IF res.state = "Waiting" THEN PArm("", "sleeping", FALSE)
    ELSE PArm("", "none", TRUE)

\* the Pending arm letting the task go instead of pushing it back
PollMatchDropsPending(res) ==
    IF ~IsOk(res) THEN PArm(res.err, "none", FALSE)
    ELSE IF res.state = "Pending" THEN PArm("", "none", FALSE)
    ELSE IF res.state = "Waiting"
    THEN PArm("", IF res.value # None THEN "sleeping" ELSE "none", FALSE)
    ELSE PArm("", "none", TRUE)

\* the Done arm pushing the task back instead of destroying it
PollMatchRequeuesDone(res) ==
    IF ~IsOk(res) THEN PArm(res.err, "none", FALSE)
    ELSE IF res.state = "Pending" THEN PArm("", "pending", FALSE)
    ELSE IF res.state = "Waiting"
    THEN PArm("", IF res.value # None THEN "sleeping" ELSE "none", FALSE)
    ELSE PArm("", "pending", FALSE)

PollMatch(res) ==
    IF ~IsOk(res) THEN PArm(res.err, "none", FALSE)
    ELSE IF res.state = "Pending" THEN PArm("", "pending", FALSE)
    ELSE IF res.state = "Waiting"
    THEN PArm("", IF res.value # None THEN "sleeping" ELSE "none", FALSE)
    ELSE PArm("", "none", TRUE)

\* PollRunner::run: one turn of
\* while let Some(mut future) = self.active.pop_front() { ... }
PollPoll ==
    /\ runner = "poll" /\ pc = "inner"
    /\ active # << >>
    /\ LET b == Head(active)
           r == Poll(b.fut, b.id)
           future == [b EXCEPT !.fut = r.fut]
           arm == PollMatch(r.res)
           gone == IF arm.destroy THEN Cleanup(r.fut, b.id) ELSE << >>
       IN  /\ active' = Tail(active)
           /\ pending' = IF arm.to = "pending" THEN Append(pending, future)
                                               ELSE pending
           /\ sleeping' = IF arm.to = "sleeping" THEN Append(sleeping, future)
                                                 ELSE sleeping
           /\ log' = log \o Stamp(r.ev \o gone, runs, sweep)
           /\ result' = IF arm.ret # "" THEN arm.ret ELSE result
           /\ pc' = IF arm.ret # "" THEN "returned" ELSE pc
    /\ UNCHANGED << runner, futs, i, runs, sweep, sched, direct >>

\* handle_sleeping_futures leaving the sleeping tasks where they are
handle_sleeping_futures_keeps ==
    /\ runner = "poll" /\ pc = "inner"
    /\ active = << >>
    /\ pc' = "outer"
    /\ UNCHANGED << runner, queues, i, result, runs, sweep, sched, log,
                    direct >>

\* PollRunner::handle_sleeping_futures, called when active is drained
handle_sleeping_futures ==
    /\ runner = "poll" /\ pc = "inner"
    /\ active = << >>
    /\ pending' = pending \o sleeping
    /\ sleeping' = << >>
    /\ pc' = "outer"
    /\ UNCHANGED << runner, futs, active, i, result, runs, sweep, sched,
                    log, direct >>

\* the caller drops the runner: neither runner implements Drop, so the
\* boxed tasks still queued are freed without a destroy call
Teardown ==
    /\ Idle
    /\ pc' = "dropped"
    /\ futs' = << >> /\ active' = << >> /\ pending' = << >>
    /\ sleeping' = << >>
    /\ UNCHANGED << runner, i, result, runs, sweep, sched, log, direct >>

Next ==
    \/ \E f \in RunnerTasks : SimpleSchedule(f)
    \/ \E f \in RunnerTasks : PollSchedule(f)
    \/ RunCall
    \/ SimpleReturn
    \/ SimplePassStart
    \/ SimplePassEnd
    \/ SimplePoll
    \/ PollReturn
    \/ PollSweepStart
    \/ PollPoll
    \/ handle_sleeping_futures
    \/ Teardown

Spec == Init /\ [][Next]_vars

\* ================================================================ claims
\* helpers over the recorded calls
IsPrefix(p, q) == Len(p) <= Len(q) /\ SubSeq(q, 1, Len(p)) = p
CleanupCount(id) ==
    Cardinality({k \in DOMAIN log : log[k].op = "cleanup" /\ log[k].id = id})
PollCount(id) ==
    Cardinality({k \in DOMAIN log : log[k].op = "poll" /\ log[k].id = id})
Ids(q) == {q[k].id : k \in DOMAIN q}
Scheduled == {<< n >> : n \in 0..(Len(sched) - 1)}
IsDone(r) == IsOk(r) /\ r.state = "Done"
\* the task answers its first poll with Done
DoneOnFirstPoll(f) == IsDone(Poll(f, << 0 >>).res)

\* C1: on a PollRunner on which only tasks that return Done on their first
\* poll were scheduled (any number of them, none included), a run() that
\* returns has returned Ok(()), has left pending, active and sleeping empty,
\* and every scheduled task has had destroy called exactly once.
C1_PollRunnerConvergence ==
    ( /\ runner = "poll"
      /\ pc = "returned"
      /\ \A n \in DOMAIN sched : DoneOnFirstPoll(sched[n]) )
    => /\ result = "Ok"
       /\ active = << >> /\ pending = << >> /\ sleeping = << >>
       /\ \A id \in Scheduled : CleanupCount(id) = 1

C1_Witness ==
    /\ runner = "poll" /\ pc = "returned" /\ result = "Ok"
    /\ Len(sched) = MaxTasks
    /\ \A n \in DOMAIN sched : DoneOnFirstPoll(sched[n])
    /\ \A id \in Scheduled : CleanupCount(id) = 1

\* C2: the first poll of Done::new(v) returns Done carrying v and clears the
\* held value; every later poll returns the error PolledAfterCompletion.
C2_DoneSingleCompletion ==
    ( pc = "direct" /\ tinit.kind = "Done" )
    => /\ touts = << >> => tfut = tinit
       /\ touts # << >> =>
            /\ touts[1] = FutResult("Done", tinit.res)
            /\ tfut.res = None
       /\ \A k \in 2..Len(touts) : touts[k] = Err("PolledAfterCompletion")

C2_Witness ==
    /\ pc = "direct" /\ tinit = DoneNew(10)
    /\ Len(touts) = 3
    /\ touts[1] = FutResult("Done", Some(10))
    /\ touts[3] = Err("PolledAfterCompletion")

\* the outcome of polling f until it returns Done, at most n times:
\* << value >> with the Option the Done outcome carried, << >> if no poll
\* returned Done
RECURSIVE RunToDone(_, _)
RunToDone(f, n) ==
    IF n = 0 THEN << >>
    ELSE LET r == Poll(f, << 0 >>)
         IN  IF IsDone(r.res) THEN << r.res.value >>
             ELSE RunToDone(r.fut, n - 1)

\* the same for the polls the direct caller has made
FirstDone(outs) ==
    IF \E k \in DOMAIN outs : IsDone(outs[k])
    THEN << outs[CHOOSE k \in DOMAIN outs :
                   /\ IsDone(outs[k])
                   /\ \A j \in 1..(k - 1) : ~IsDone(outs[j])].value >>
    ELSE << >>

\* the value a the first task of the chain completes with: << a >>, or << >>
FirstValue(c) ==
    LET d == RunToDone(c.future, MaxPolls)
    IN  IF d # << >> /\ d[1] # None THEN d[1] ELSE << >>

\* C3: for a chain Chain::new(A, t) whose first task A completes with a
\* value a, polling the chain until it returns Done yields the terminal value
\* that polling t(a) directly until it returns Done yields: a Done the chain
\* returned carries that value, and once the caller has made all its polls
\* the chain has returned Done if t(a) does.
C3_ChainValueEquivalence ==
    ( pc = "direct" /\ tinit.kind = "Chain" /\ FirstValue(tinit) # << >> )
    => LET ref == RunToDone(Apply(tinit.transform, FirstValue(tinit)[1]),
                            MaxPolls)
       IN  /\ FirstDone(touts) # << >> => FirstDone(touts) = ref
           /\ (Len(touts) = MaxPolls /\ ref # << >>) => FirstDone(touts) = ref

\* Chain::new(Done::new(10), |x| Done::new(x + 5)) ends with 15
C3_Witness ==
    /\ pc = "direct"
    /\ tinit = ChainNew(DoneNew(10), Tr("add", 5, "Done", << >>))
    /\ FirstDone(touts) = << Some(15) >>

\* C4 (as claimed): when the first task of a chain has reached Done and the
\* chain holds the second task, cleanup has been called on the first task, in
\* that poll of the chain or before it.
C4_FirstCleanedBeforeSecond ==
    \A k \in DOMAIN log :
        ( log[k].op = "create" /\ log[k].id = << 0, 2 >> )
        => \E j \in DOMAIN log :
              /\ log[j].op = "cleanup" /\ log[j].id = << 0, 1 >>
              /\ (j < k \/ log[j].sweep = log[k].sweep)

\* the polls a runner itself made (on the tasks it was handed)
IsRunnerPoll(e) == e.op = "poll" /\ Len(e.id) = 1
IsWaiting(r) == IsOk(r) /\ r.state = "Waiting"

\* C5: when a task polled by SimpleRunner::run returns Waiting, with or
\* without a value, that run() returns Err(SleepingUnsupported) at that poll:
\* the run makes no later poll or destroy on any task handed to the runner.
C5_SimpleRunnerFatalWait ==
    runner = "simple" =>
      \A k \in DOMAIN log :
        ( IsRunnerPoll(log[k]) /\ IsWaiting(log[k].out) )
        => /\ \A j \in (k + 1)..Len(log) :
                log[j].run = log[k].run
                => Len(log[j].id) > 1 /\ IsPrefix(log[k].id, log[j].id)
           /\ log[k].run = runs
                => result = "SleepingUnsupported" /\ pc \notin {"outer", "inner"}

\* a task waits while another task queued behind it has never been polled
C5_Witness ==
    /\ runner = "simple" /\ pc = "returned"
    /\ result = "SleepingUnsupported"
    /\ \E k \in DOMAIN log : IsRunnerPoll(log[k]) /\ IsWaiting(log[k].out)
    /\ \E n \in DOMAIN futs : PollCount(futs[n].id) = 0

\* the task reports Waiting with a value on its first poll and Done on its
\* second
WaitsThenDone(f) ==
    LET r1 == Poll(f, << 0 >>)
    IN  /\ IsWaiting(r1.res) /\ r1.res.value # None
        /\ IsDone(Poll(r1.fut, << 0 >>).res)

\* the places in the log of the runner's polls of task id
PollsOf(id) == {k \in DOMAIN log : log[k].op = "poll" /\ log[k].id = id}

\* C6: a task scheduled on a PollRunner that returns Waiting with a value on
\* its first poll and Done on its second is, while that run() goes on, in
\* sleeping for the rest of the sweep of its first poll, in pending when
\* that sweep ends, and in active in the next sweep, where it is polled for
\* the second time, returns Done and is destroyed; it is polled twice and
\* destroyed once in all. When only such tasks and tasks that are Done on
\* their first poll were scheduled, run() returns Ok(()) after two sweeps.
C6_SleepDrainCycle ==
    runner = "poll" =>
      /\ \A n \in DOMAIN sched :
           WaitsThenDone(sched[n]) =>
             LET id == << n - 1 >>
                 ps == PollsOf(id)
             IN  /\ Cardinality(ps) <= 2
                 /\ Cardinality(ps) = 1 =>
                      LET k == CHOOSE k \in ps : TRUE
                      IN  /\ IsWaiting(log[k].out)
                          /\ CleanupCount(id) = 0
                          /\ pc # "dropped" =>
                               id \in Ids(active) \cup Ids(pending)
                                         \cup Ids(sleeping)
                          /\ (runs = log[k].run /\ pc \in {"inner", "outer"}) =>
                               /\ sweep <= log[k].sweep + 1
                               /\ (sweep = log[k].sweep /\ pc = "inner") =>
                                    id \in Ids(sleeping)
                               /\ (sweep = log[k].sweep /\ pc = "outer") =>
                                    id \in Ids(pending)
                               /\ sweep = log[k].sweep + 1 =>
                                    pc = "inner" /\ id \in Ids(active)
                 /\ Cardinality(ps) = 2 =>
                      LET k1 == CHOOSE k \in ps : \A j \in ps : k <= j
                          k2 == CHOOSE k \in ps : \A j \in ps : j <= k
                      IN  /\ IsWaiting(log[k1].out) /\ IsDone(log[k2].out)
                          /\ log[k2].run = log[k1].run =>
                                log[k2].sweep = log[k1].sweep + 1
                          /\ log[k2 + 1].op = "cleanup" /\ log[k2 + 1].id = id
                          /\ CleanupCount(id) = 1
                          /\ id \notin Ids(active) \cup Ids(pending)
                                       \cup Ids(sleeping)
      /\ ( /\ pc = "returned" /\ runs = 1
           /\ \E n \in DOMAIN sched : WaitsThenDone(sched[n])
           /\ \A n \in DOMAIN sched :
                WaitsThenDone(sched[n]) \/ DoneOnFirstPoll(sched[n]) )
         => /\ result = "Ok" /\ sweep = 2
            /\ \A id \in Scheduled : CleanupCount(id) = 1

C6_Witness ==
    /\ runner = "poll" /\ pc = "returned" /\ runs = 1 /\ result = "Ok"
    /\ sweep = 2
    /\ sched = << WaitDone(5) >>
    /\ PollCount(<< 0 >>) = 2 /\ CleanupCount(<< 0 >>) = 1

Last(q) == q[Len(q)]

C8_CleanupExactlyOnce ==
    /\ \A id \in Scheduled : CleanupCount(id) <= 1
    /\ pc = "dropped" => \A id \in Scheduled : CleanupCount(id) = 1

\* C9: once a runner has called destroy on a task, the task (and any task
\* inside it) is never polled again and is in none of the runner's queues.
C9_NoPollAfterCleanup ==
    \A k \in DOMAIN log :
        log[k].op = "cleanup" =>
          /\ \A j \in (k + 1)..Len(log) :
                ~(log[j].op = "poll" /\ IsPrefix(log[k].id, log[j].id))
          /\ \A q \in {futs, active, pending, sleeping} :
                \A id \in Ids(q) : ~IsPrefix(id, log[k].id)

\* a task was destroyed and the runner went on polling others
C9_Witness ==
    \E k \in DOMAIN log :
        /\ log[k].op = "cleanup" /\ Len(log[k].id) = 1
        /\ \E j \in (k + 1)..Len(log) : IsRunnerPoll(log[j])
        /\ PollCount(log[k].id) >= 1

\* C10: in every state of a PollRunner each task is in at most one of
\* pending, active and sleeping, and at most once in it.
C10_SingleOwnership ==
    runner = "poll" =>
      LET all == active \o pending \o sleeping
      IN  \A m, n \in DOMAIN all : all[m].id = all[n].id => m = n

\* tasks sit in two of the queues after some have moved
C10_Witness ==
    /\ runner = "poll"
    /\ sleeping # << >> /\ pending # << >> /\ active # << >>
    /\ \E k \in DOMAIN log : IsRunnerPoll(log[k]) /\ IsWaiting(log[k].out)

\* the places in the log where the transform of the chain the caller holds
\* built the second task, and where its first task returned Done with a value
TransformCalls ==
    {k \in DOMAIN log : log[k].op = "create" /\ log[k].id = << 0, 2 >>}
FirstDoneWithValue ==
    {k \in DOMAIN log : /\ log[k].op = "poll" /\ log[k].id = << 0, 1 >>
                        /\ IsDone(log[k].out) /\ log[k].out.value # None}

\* C11: over the polls of a chain the transform is invoked at most once, and
\* it has been invoked exactly when the first task has returned Done with a
\* value; it is invoked in the poll of the chain in which the first task
\* returned that Done, the chain leaves First in that poll, and afterwards
\* the chain is never in First and never polls the first task again.
C11_TransformExactlyOnce ==
    tinit.kind = "Chain" =>
      /\ Cardinality(TransformCalls) <= 1
      /\ TransformCalls # {} <=> FirstDoneWithValue # {}
      /\ \A k \in TransformCalls :
           /\ \E j \in FirstDoneWithValue :
                 j < k /\ log[j].sweep = log[k].sweep
           /\ \A j \in (k + 1)..Len(log) :
                 ~(log[j].op = "poll" /\ log[j].id = << 0, 1 >>)
      /\ TransformCalls # {} => tfut.state # "First"

\* the chain was polled on after its transform had been invoked
C11_Witness ==
    /\ tinit.kind = "Chain"
    /\ Cardinality(TransformCalls) = 1
    /\ \E k \in TransformCalls : log[k].sweep = 2
    /\ Len(touts) = MaxPolls

InQueue(id) == id \in Ids(active) \cup Ids(pending) \cup Ids(sleeping)
\* the places in the log of the polls a runner made on the task id
RunnerPollsOf(id) == {k \in DOMAIN log : IsRunnerPoll(log[k]) /\ log[k].id = id}
\* the outcome of the last poll the runner made on the task id
LastOutcome(id) ==
    log[CHOOSE k \in RunnerPollsOf(id) : \A j \in RunnerPollsOf(id) : j <= k].out

\* C12: when a poll made by PollRunner::run returns an error, that run()
\* returns that error at once: it makes no later poll or destroy. The task
\* that failed is in no queue from then on, is never polled again and never
\* has destroy called. All other tasks stay where they are: while the runner
\* lives, a scheduled task is in a queue unless it was destroyed, failed, or
\* returned Waiting without a value.
C12_PollRunnerAbortOnError ==
    runner = "poll" =>
      /\ \A k \in DOMAIN log :
           ( IsRunnerPoll(log[k]) /\ ~IsOk(log[k].out) )
           => /\ \A j \in (k + 1)..Len(log) :
                   /\ log[j].run = log[k].run
                        => Len(log[j].id) > 1 /\ IsPrefix(log[k].id, log[j].id)
                   /\ ~(IsRunnerPoll(log[j]) /\ log[j].id = log[k].id)
              /\ log[k].run = runs
                   => result = log[k].out.err /\ pc \notin {"outer", "inner"}
              /\ ~InQueue(log[k].id)
              /\ CleanupCount(log[k].id) = 0
      /\ pc # "dropped" =>
           \A id \in Scheduled :
              \/ InQueue(id)
              \/ CleanupCount(id) = 1
              \/ /\ RunnerPollsOf(id) # {}
                 /\ \/ ~IsOk(LastOutcome(id))
                    \/ IsWaiting(LastOutcome(id)) /\ LastOutcome(id).value = None

\* run() returned a task's error while a task not yet polled in that sweep
\* is still in active and a task polled before it is back in pending
C12_Witness ==
    /\ runner = "poll" /\ pc = "returned" /\ result = "UserError"
    /\ active # << >> /\ pending # << >>
    /\ \E id \in Scheduled :
          /\ RunnerPollsOf(id) # {} /\ ~IsOk(LastOutcome(id))
          /\ ~InQueue(id) /\ CleanupCount(id) = 0

\* no poll by the runner and no destroy is recorded after place k of the log
LastRunnerCall(k) ==
    \A j \in (k + 1)..Len(log) : Len(log[j].id) > 1 /\ log[j].op # "cleanup"

\* C13: a task that returns Waiting with no value to PollRunner::run is in
\* none of pending, active and sleeping from then on, is never polled again
\* and never has destroy called, and run() goes on without reporting an error
\* for it; a task that returns Waiting with a value is put in sleeping (and
\* stays queued until it is polled again).
C13_ValuelessWaitDropped ==
    runner = "poll" =>
      \A k \in DOMAIN log :
        ( IsRunnerPoll(log[k]) /\ IsWaiting(log[k].out) )
        => IF log[k].out.value = None
           THEN /\ ~InQueue(log[k].id)
                /\ CleanupCount(log[k].id) = 0
                /\ \A j \in (k + 1)..Len(log) :
                      ~(log[j].op = "poll" /\ IsPrefix(log[k].id, log[j].id)
                        /\ (log[j].run # log[k].run
                            \/ log[j].sweep # log[k].sweep))
                /\ LastRunnerCall(k) =>
                      /\ result \in {"running", "Ok"}
                      /\ (log[k].run = runs /\ pc = "returned") => result = "Ok"
           ELSE ( /\ pc # "dropped"
                  /\ \A j \in RunnerPollsOf(log[k].id) : j <= k )
                => /\ InQueue(log[k].id)
                   /\ CleanupCount(log[k].id) = 0
                   /\ ( /\ log[k].run = runs /\ log[k].sweep = sweep
                        /\ pc \in {"inner", "returned"} )
                      => log[k].id \in Ids(sleeping)

\* a task was dropped on Waiting without a value, the run went on to poll
\* another task and returned Ok(())
C13_Witness ==
    /\ runner = "poll" /\ pc = "returned" /\ result = "Ok" /\ runs = 1
    /\ \E k \in DOMAIN log :
          /\ IsRunnerPoll(log[k]) /\ IsWaiting(log[k].out)
          /\ log[k].out.value = None
          /\ CleanupCount(log[k].id) = 0
          /\ \E j \in (k + 1)..Len(log) : IsRunnerPoll(log[j])

\* the task returns Done after at most n - 1 Pending polls, with no Waiting
\* and no error on the way
RECURSIVE Completes(_, _)
Completes(f, n) ==
    IF n = 0 THEN FALSE
    ELSE LET r == Poll(f, << 0 >>)
         IN  IF ~IsOk(r.res) \/ r.res.state = "Waiting" THEN FALSE
             ELSE IF r.res.state = "Done" THEN TRUE
             ELSE Completes(r.fut, n - 1)

\* the tasks of test_simple_runner and their like: Done primitives, chains
\* over Done primitives, tasks that are Pending a few times and then Done
CompletingTasks == {f \in RunnerTasks : Completes(f, MaxSweeps)}

\* a SimpleRunner that is only handed such tasks; once called, run() keeps
\* executing
InitSimple == Init /\ runner = "simple"

SimpleRunStep ==
    SimpleReturn \/ SimplePassStart \/ SimplePassEnd \/ SimplePoll

NextSimple ==
    \/ \E f \in CompletingTasks : SimpleSchedule(f)
    \/ RunCall
    \/ SimpleReturn
    \/ SimplePassStart
    \/ SimplePassEnd
    \/ SimplePoll
    \/ Teardown

SpecSimpleRun == InitSimple /\ [][NextSimple]_vars /\ WF_vars(SimpleRunStep)

\* C14: on a SimpleRunner that was handed only tasks that return Done after
\* finitely many Pending polls (never Waiting, never an error), every call
\* of run() returns, and when it has returned the result is Ok(()),
\* is_empty() is true and every scheduled task was polled, is out of the
\* sequence and has had destroy called exactly once.
C14_SimpleRunnerCompletion ==
    /\ [](pc = "returned" =>
            /\ result = "Ok"
            /\ futs = << >>
            /\ \A id \in Scheduled :
                  PollCount(id) >= 1 /\ CleanupCount(id) = 1)
    /\ (pc \in {"outer", "inner"}) ~> (pc = "returned")

\* Done::new and a chain over Done::new, as in test_simple_runner, and a
\* task that is Pending first, all completed
C14_Witness ==
    /\ runner = "simple" /\ pc = "returned" /\ result = "Ok"
    /\ futs = << >>
    /\ Len(sched) = MaxTasks
    /\ \E n \in DOMAIN sched : sched[n].kind = "Chain"
    /\ \E n \in DOMAIN sched : sched[n].kind = "Ext"
    /\ \A id \in Scheduled : CleanupCount(id) = 1

\* the places in the log of the first poll a runner made on each task
FirstPolls ==
    {k \in DOMAIN log :
        IsRunnerPoll(log[k]) /\ \A j \in RunnerPollsOf(log[k].id) : k <= j}

\* TestTracker.results: the values of the Done outcomes the runner got, in
\* the order it got them
RECURSIVE Results(_)
Results(l) ==
    IF l = << >> THEN << >>
    ELSE IF IsRunnerPoll(Head(l)) /\ IsDone(Head(l).out)
                                  /\ Head(l).out.value # None
    THEN << Head(l).out.value[1] >> \o Results(Tail(l))
    ELSE Results(Tail(l))

\* C15: PollRunner polls in queue order: tasks are polled for the first time
\* in the order in which they were scheduled, and two tasks that both
\* returned Pending in one sweep are polled in the same order in the next
\* sweep. So when only tasks that are Done on their first poll were
\* scheduled, the values recorded when run() has returned are their values
\* in scheduling order (<<5, 10>> for Done(5), Done(10)).
C15_PollRunnerFifo ==
    runner = "poll" =>
      /\ \A j, k \in FirstPolls : j < k => log[j].id[1] < log[k].id[1]
      /\ \A j, k \in DOMAIN log :
           ( /\ j < k
             /\ IsRunnerPoll(log[j]) /\ IsRunnerPoll(log[k])
             /\ log[j].run = log[k].run /\ log[j].sweep = log[k].sweep
             /\ IsOk(log[j].out) /\ log[j].out.state = "Pending"
             /\ IsOk(log[k].out) /\ log[k].out.state = "Pending" )
           => \A m, n \in DOMAIN log :
                ( /\ IsRunnerPoll(log[m]) /\ log[m].id = log[j].id
                  /\ IsRunnerPoll(log[n]) /\ log[n].id = log[k].id
                  /\ log[m].run = log[j].run /\ log[n].run = log[j].run
                  /\ log[m].sweep = log[j].sweep + 1
                  /\ log[n].sweep = log[j].sweep + 1 )
                => m < n
      /\ ( /\ pc = "returned"
           /\ \A n \in DOMAIN sched : sched[n].kind = "Done" )
         => Results(log) = [n \in DOMAIN sched |-> sched[n].res[1]]

\* test_sequential_execution: values 5 then 10 record [5, 10]
C15_Witness ==
    /\ runner = "poll" /\ pc = "returned" /\ result = "Ok"
    /\ sched = << DoneNew(5), DoneNew(10) >>
    /\ Results(log) = << 5, 10 >>

\* a Done primitive, or a chain over such tasks whose transforms build such
\* tasks
RECURSIVE DoneOnlyTransform(_)
DoneOnlyTransform(tr) ==
    /\ tr.mk = "Done"
    /\ tr.next # << >> => DoneOnlyTransform(tr.next[1])

DoneOnly(f) ==
    \/ f.kind = "Done"
    \/ /\ f.kind = "Chain" /\ f.state = "First"
       /\ f.future.kind = "Done" /\ DoneOnlyTransform(f.transform)

\* the value of the last stage, computed from the closures alone
RECURSIVE ThroughTransform(_, _)
ThroughTransform(tr, x) ==
    IF tr.next = << >> THEN Arith(tr, x)
    ELSE ThroughTransform(tr.next[1], Arith(tr, x))

FinalValue(f) ==
    IF f.kind = "Done" THEN f.res[1]
    ELSE ThroughTransform(f.transform, f.future.res[1])

\* the places in the log of the Done outcomes of task id and of the tasks
\* inside it
DonesUnder(id) ==
    {k \in DOMAIN log : /\ log[k].op = "poll" /\ IsPrefix(id, log[k].id)
                        /\ IsDone(log[k].out) /\ log[k].out.value # None}

IsSecondStage(id) == Len(id) > 1 /\ id[Len(id)] = 2
Parent(id) == SubSeq(id, 1, Len(id) - 1)
SamePoll(j, k) == log[j].run = log[k].run /\ log[j].sweep = log[k].sweep

\* C16: for chains run on a PollRunner (the first-stage tasks exist before
\* the chain is scheduled): a second-stage task is created before it is
\* polled and is not polled in the poll of the chain that created it; it is
\* created only in a poll of the chain in which the first-stage task was
\* polled to Done, and that poll of the chain returns Pending; and when a
\* chain over Done tasks has completed, the last terminal value recorded for
\* it is the value of its final stage.
C16_ChainStageOrdering ==
    runner = "poll" =>
      /\ \A j \in DOMAIN log :
           ( log[j].op = "poll" /\ IsSecondStage(log[j].id) )
           => \E k \in 1..(j - 1) :
                 /\ log[k].op = "create" /\ log[k].id = log[j].id
                 /\ ~SamePoll(j, k)
      /\ \A k \in DOMAIN log :
           log[k].op = "create"
           => /\ \E j \in 1..(k - 1) :
                    /\ log[j].op = "poll"
                    /\ log[j].id = Parent(log[k].id) \o << 1 >>
                    /\ IsDone(log[j].out) /\ log[j].out.value # None
                    /\ SamePoll(j, k)
              /\ \E j \in 1..(k - 1) :
                    /\ log[j].op = "poll" /\ log[j].id = Parent(log[k].id)
                    /\ SamePoll(j, k)
                    /\ log[j].out = FutResultPending
      /\ \A n \in DOMAIN sched :
           ( /\ sched[n].kind = "Chain" /\ DoneOnly(sched[n])
             /\ CleanupCount(<< n - 1 >>) = 1 )
           => LET ds == DonesUnder(<< n - 1 >>)
                  last == CHOOSE k \in ds : \A j \in ds : j <= k
              IN  ds # {} /\ log[last].out.value[1] = FinalValue(sched[n])

\* test_chained_futures: first value 5 and transform x * 2 end with 10
C16_Witness ==
    /\ runner = "poll" /\ pc = "returned" /\ result = "Ok"
    /\ sched = << ChainNew(DoneNew(5), Tr("mul", 2, "Done", << >>)) >>
    /\ \E k \in DOMAIN log : log[k].op = "create" /\ log[k].id = << 0, 2 >>
    /\ LET ds == DonesUnder(<< 0 >>)
       IN  log[CHOOSE k \in ds : \A j \in ds : j <= k].out.value = Some(10)

\* the direct caller polls the chain it holds, which is in state st
PollsChainIn(st) ==
    /\ pc = "direct" /\ tfut.kind = "Chain" /\ tfut.state = st
    /\ touts' # touts

\* the transform is not invoked in this step
NoTransformCall ==
    \A k \in (Len(log) + 1)..Len(log') : log'[k].op # "create"

\* C17: when a chain in First state polls its first task and that task
\* returns Pending, with or without a value, the chain returns Pending with
\* no value; when it returns Waiting, with or without a value, the chain
\* returns Waiting with no value. In both cases the chain stays in First with
\* the same task and transform, and the transform is not invoked.
C17_FirstStateMasking ==
    [][ PollsChainIn("First") =>
          LET inner == Poll(tfut.future, << 0, 1 >>)
              stays == /\ tfut'.state = "First"
                       /\ tfut'.future = inner.fut
                       /\ tfut'.transform = tfut.transform
                       /\ NoTransformCall
          IN  /\ (IsOk(inner.res) /\ inner.res.state = "Pending") =>
                    Last(touts') = FutResult("Pending", None) /\ stays
              /\ IsWaiting(inner.res) =>
                    Last(touts') = FutResult("Waiting", None) /\ stays
      ]_vars

\* the first task returned Pending with a value and the chain Pending with
\* none
C17_Witness ==
    /\ pc = "direct"
    /\ tinit.kind = "Chain" /\ tinit.future = PendSomeDone(5)
    /\ Len(touts) = 1 /\ touts[1] = FutResult("Pending", None)
    /\ tfut.state = "First" /\ tfut.transform = tinit.transform
    /\ log[2].out = FutResult("Pending", Some(5))

\* C18: when a chain in First state polls its first task and gets Done
\* carrying no value, the poll of the chain returns the error
\* CompletedWithoutValue, the transform is not invoked and the chain does not
\* move to Second; a chain whose first task did so never returns Done.
C18_DoneWithoutValueIsError ==
    /\ [][ ( /\ PollsChainIn("First")
             /\ Poll(tfut.future, << 0, 1 >>).res = FutResult("Done", None) )
           => /\ Last(touts') = Err("CompletedWithoutValue")
              /\ tfut'.state # "Second"
              /\ NoTransformCall ]_vars
    /\ []( ( /\ tinit.kind = "Chain"
             /\ \E k \in DOMAIN log :
                   /\ log[k].op = "poll" /\ log[k].id = << 0, 1 >>
                   /\ log[k].out = FutResult("Done", None) )
           => /\ \A n \in DOMAIN touts : ~IsDone(touts[n])
              /\ TransformCalls = {}
              /\ tfut.state # "Second" )

C18_Witness ==
    /\ tinit.kind = "Chain" /\ tinit.future = DoneNoValue
    /\ Len(touts) >= 2
    /\ touts[1] = Err("CompletedWithoutValue")
    /\ TransformCalls = {}

\* the calls made in this step
NewCalls == SubSeq(log', Len(log) + 1, Len(log'))
CleanupsOn(ev, id) ==
    Cardinality({k \in DOMAIN ev : ev[k].op = "cleanup" /\ ev[k].id = id})
NoCallUnder(ev, id) == \A k \in DOMAIN ev : ~IsPrefix(id, ev[k].id)

\* C19: polling a chain in Done (Finished) state returns the error
\* PolledAfterCompletion and leaves it in that state; cleanup on a chain in
\* that state calls cleanup on no inner task; cleanup on a chain in First or
\* Second state calls cleanup exactly once on the task the chain holds and
\* not on the other.
C19_FinishedInert ==
    [][ /\ PollsChainIn("Done") =>
             /\ Last(touts') = Err("PolledAfterCompletion")
             /\ tfut' = ChainDone /\ tfut = ChainDone
             /\ Len(NewCalls) = 1
        /\ ( pc = "direct" /\ pc' = "cleaned" /\ tfut.kind = "Chain" ) =>
             /\ CleanupsOn(NewCalls, << 0 >>) = 1
             /\ tfut.state = "Done" => Len(NewCalls) = 1
             /\ tfut.state = "First" =>
                    /\ CleanupsOn(NewCalls, << 0, 1 >>) = 1
                    /\ NoCallUnder(NewCalls, << 0, 2 >>)
             /\ tfut.state = "Second" =>
                    /\ CleanupsOn(NewCalls, << 0, 2 >>) = 1
                    /\ NoCallUnder(NewCalls, << 0, 1 >>)
      ]_vars

\* a finished chain was polled again and then cleaned up
C19_Witness ==
    /\ pc = "cleaned" /\ tinit.kind = "Chain" /\ tfut = ChainDone
    /\ \E n \in DOMAIN touts : IsDone(touts[n])
    /\ Last(touts) = Err("PolledAfterCompletion")
    /\ Last(log).op = "cleanup" /\ Last(log).id = << 0 >>
    /\ CleanupCount(<< 0, 2 >>) = 0

\* the places in the log of the polls SimpleRunner::run made in the pass it
\* is in
ThisPass ==
    {k \in DOMAIN log :
        IsRunnerPoll(log[k]) /\ log[k].run = runs /\ log[k].sweep = sweep}
PolledThisPass(id) == Cardinality({k \in ThisPass : log[k].id = id})

\* C20: in a pass of SimpleRunner::run the tasks are polled in sequence
\* order, each at most once, and exactly once when the pass has ended; a
\* task that returns Pending stays in the sequence, a task that returns Done
\* is taken out and destroyed; taking a task out does not skip the task
\* behind it (during the pass the tasks before index i are the polled ones,
\* the tasks from i on the ones not yet polled) and leaves the other tasks in
\* their order.
C20_SimpleRunnerPass ==
    runner = "simple" =>
      /\ \A m, n \in DOMAIN futs : m < n => futs[m].id[1] < futs[n].id[1]
      /\ \A j, k \in DOMAIN log :
           ( /\ j < k /\ IsRunnerPoll(log[j]) /\ IsRunnerPoll(log[k])
             /\ SamePoll(j, k) )
           => log[j].id[1] < log[k].id[1]
      /\ pc # "dropped" =>
           \A id \in Scheduled :
              IF id \in Ids(futs) THEN CleanupCount(id) = 0
                                  ELSE CleanupCount(id) = 1
      /\ pc \in {"inner", "outer"} =>
           \A k \in ThisPass :
              /\ (IsOk(log[k].out) /\ log[k].out.state = "Pending")
                   => log[k].id \in Ids(futs)
              /\ IsDone(log[k].out)
                   => /\ log[k].id \notin Ids(futs)
                      /\ \E j \in (k + 1)..Len(log) :
                            /\ log[j].op = "cleanup" /\ log[j].id = log[k].id
                            /\ SamePoll(j, k)
      /\ pc = "inner" =>
           \A n \in DOMAIN futs :
              PolledThisPass(futs[n].id) = (IF n <= i THEN 1 ELSE 0)
      /\ (pc = "outer" /\ sweep >= 1) =>
           \A n \in DOMAIN futs : PolledThisPass(futs[n].id) = 1

\* a pass has ended in which the task in the middle was removed and the tasks
\* before and behind it were polled and kept
C20_Witness ==
    /\ runner = "simple" /\ pc = "outer" /\ sweep = 1
    /\ sched = << PendDone(5), DoneNew(5), PendForever >>
    /\ Len(futs) = 2 /\ futs[1].id = << 0 >> /\ futs[2].id = << 2 >>
    /\ PolledThisPass(<< 2 >>) = 1
    /\ CleanupCount(<< 1 >>) = 1

\* a user's task that returns Pending on every poll, and one that returns
\* Waiting with a value on every poll
AlwaysPending(f) ==
    /\ f.kind = "Ext"
    /\ \A k \in DOMAIN f.steps :
          IsOk(f.steps[k]) /\ f.steps[k].state = "Pending"
AlwaysWaiting(f) ==
    /\ f.kind = "Ext"
    /\ \A k \in DOMAIN f.steps :
          IsWaiting(f.steps[k]) /\ f.steps[k].value # None

\* the scheduled tasks that never come to an end on the runner built
NeverEnding ==
    {n \in DOMAIN sched :
        \/ AlwaysPending(sched[n])
        \/ runner = "poll" /\ AlwaysWaiting(sched[n])}

PollsIn(id, r, s) ==
    Cardinality({k \in RunnerPollsOf(id) :
                    log[k].run = r /\ log[k].sweep = s})

\* C21 (as claimed): a run() on a runner that holds a task that is Pending
\* on every poll (or, on PollRunner, Waiting with a value on every poll)
\* never returns.
C21_RunNeverReturns ==
    ~(pc = "returned" /\ NeverEnding # {})

\* an aborted run() left the task in sleeping: its last poll before this run
\* returned Waiting with a value and no sweep has been completed since (the
\* sweep of that poll was aborted, and so was the first sweep of every
\* run() between)
Stranded(id) ==
    /\ runner = "poll" /\ runs > 1
    /\ \E k \in RunnerPollsOf(id) :
          /\ log[k].run < runs
          /\ \A m \in RunnerPollsOf(id) : log[m].run < runs => m <= k
          /\ IsWaiting(log[k].out) /\ log[k].out.value # None
          /\ \A m \in DOMAIN log :
                (m > k /\ log[m].run < runs) =>
                   \/ log[m].run = log[k].run /\ log[m].sweep = log[k].sweep
                   \/ log[m].run > log[k].run /\ log[m].sweep = 1

\* C21 (amended): such a run() never returns Ok(()): it returns only when
\* the poll of another task ends it, with that task's error or, on
\* SimpleRunner, with SleepingUnsupported for another task's Waiting. Until
\* then the task stays queued, is never destroyed and is polled exactly once
\* in every sweep, also when all other tasks have completed; the one
\* exception is the first sweep of a run() that finds the task in sleeping,
\* where an aborted run() left it: that sweep only wakes the task.
C21_NoTimeout ==
    \A n \in NeverEnding :
       LET id == << n - 1 >>
           Due(s) == IF s = 1 /\ Stranded(id) THEN 0 ELSE 1
       IN  /\ CleanupCount(id) = 0
           /\ pc # "dropped" => id \in Ids(futs) \cup Ids(active)
                                       \cup Ids(pending) \cup Ids(sleeping)
           /\ pc = "returned" =>
                /\ result \in FutError
                /\ \E k \in DOMAIN log :
                      /\ IsRunnerPoll(log[k]) /\ log[k].id # id
                      /\ log[k].run = runs
                      /\ LastRunnerCall(k)
                      /\ \/ ~IsOk(log[k].out) /\ result = log[k].out.err
                         \/ /\ runner = "simple" /\ IsWaiting(log[k].out)
                            /\ result = "SleepingUnsupported"
           /\ pc \in {"outer", "inner"} =>
                /\ \A s \in 1..(sweep - 1) : PollsIn(id, runs, s) = Due(s)
                /\ sweep >= 1 =>
                     PollsIn(id, runs, sweep) =
                        (IF pc = "outer" THEN Due(sweep) ELSE
                         IF id \in Ids(active) \/
                            (runner = "simple" /\
                               \E m \in (i + 1)..Len(futs) : futs[m].id = id)
                         THEN 0 ELSE Due(sweep))

\* the other task has completed and the runner has gone on polling the task
\* that is always Pending, once in each sweep
C21_Witness ==
    /\ runner = "poll" /\ pc = "outer" /\ sweep = MaxSweeps
    /\ sched = << DoneNew(5), PendForever >>
    /\ CleanupCount(<< 0 >>) = 1
    /\ PollCount(<< 1 >>) = MaxSweeps
    /\ pending # << >>

\* C22: for a chain scheduled on a PollRunner whose first task returns
\* Waiting on a poll, with or without a value: that poll of the chain returns
\* Waiting with no value and is the last call the runner makes on the chain
\* or on anything it holds; the chain is in none of the runner's queues, the
\* transform is never invoked and the second task never created, and cleanup
\* is called neither on the chain nor on its first task.
C22_WaitingChainLost ==
    runner = "poll" =>
      \A n \in DOMAIN sched :
         sched[n].kind = "Chain" =>
           LET id == << n - 1 >>
           IN  \A k \in PollsOf(id \o << 1 >>) :
                  IsWaiting(log[k].out) =>
                    /\ k > 1
                    /\ log[k - 1].op = "poll" /\ log[k - 1].id = id
                    /\ log[k - 1].out = FutResult("Waiting", None)
                    /\ \A j \in DOMAIN log :
                          j > k => ~IsPrefix(id, log[j].id)
                    /\ ~InQueue(id) /\ id \notin Ids(futs)
                    /\ \A j \in DOMAIN log :
                          log[j].op = "create" => log[j].id # id \o << 2 >>
                    /\ CleanupCount(id) = 0
                    /\ CleanupCount(id \o << 1 >>) = 0

\* run() returned Ok(()) after one poll of a chain whose first task returned
\* Waiting with a value; a task scheduled with it completed
C22_Witness ==
    /\ runner = "poll" /\ pc = "returned" /\ result = "Ok"
    /\ sched = << ChainNew(WaitDone(5), Tr("add", 5, "Done", << >>)),
                  DoneNew(10) >>
    /\ PollCount(<< 0 >>) = 1
    /\ \E k \in PollsOf(<< 0, 1 >>) :
          log[k].out = FutResult("Waiting", Some(5))
    /\ CleanupCount(<< 0 >>) = 0 /\ CleanupCount(<< 1 >>) = 1

\* the polls of the directly held chain in which its first task was polled
\* and returned an error
FirstTaskFailedAt ==
    {n \in DOMAIN touts :
        \E k \in PollsOf(<< 0, 1 >>) : log[k].sweep = n /\ ~IsOk(log[k].out)}

\* C23: when a chain in First state polls its first task and gets an error,
\* the poll of the chain returns that error unchanged and leaves the chain in
\* Done (Finished) state, holding neither the first task nor the transform,
\* and the transform is not invoked; the poll after it returns
\* PolledAfterCompletion and a cleanup of the chain calls cleanup on no inner
\* task. When a chain in Second state polls its second task and gets an
\* error, the poll of the chain returns that error unchanged and the chain
\* stays in Second holding that task.
C23_ChainStateAfterError ==
    /\ [][ /\ PollsChainIn("First") =>
                LET inner == Poll(tfut.future, << 0, 1 >>)
                IN  ~IsOk(inner.res) =>
                       /\ Last(touts') = inner.res
                       /\ tfut'.state = "Done"
                       /\ tfut'.future = NoFuture
                       /\ tfut'.transform = NoTransform
                       /\ NoTransformCall
           /\ PollsChainIn("Second") =>
                LET inner == Poll(tfut.future, << 0, 2 >>)
                IN  ~IsOk(inner.res) =>
                       /\ Last(touts') = inner.res
                       /\ tfut'.state = "Second"
                       /\ tfut'.future = inner.fut
         ]_vars
    /\ []( tinit.kind = "Chain" =>
             \A n \in FirstTaskFailedAt :
                /\ n + 1 \in DOMAIN touts =>
                      touts[n + 1] = Err("PolledAfterCompletion")
                /\ pc = "cleaned" =>
                      /\ CleanupCount(<< 0 >>) = 1
                      /\ CleanupCount(<< 0, 1 >>) = 0
                      /\ CleanupCount(<< 0, 2 >>) = 0 )

\* the first task failed with the user's error, the chain handed it on, was
\* polled again and cleaned up
C23_Witness ==
    /\ pc = "cleaned" /\ tinit.kind = "Chain" /\ tinit.future = Fails
    /\ Len(touts) = 2
    /\ touts[1] = Err("UserError")
    /\ touts[2] = Err("PolledAfterCompletion")
    /\ tfut = ChainDone
    /\ CleanupCount(<< 0 >>) = 1 /\ CleanupCount(<< 0, 1 >>) = 0

====
